---------------------------- MODULE Spec2Model ----------------------------
(***************************************************************************)
(* Connected-Car-Telemetry-Dashboard, src/Server.py.                       *)
(*                                                                         *)
(* The server is one asyncio event loop.  Code between two awaits runs     *)
(* without interruption, so every action below is one such segment: it     *)
(* starts where a coroutine is resumed from an await and ends where the    *)
(* coroutine suspends at its next await (or ends).                         *)
(*                                                                         *)
(* Numbers.  The program computes in floats; the model computes in         *)
(* integers of fixed point: speed, engine_rpm, fuel_level and              *)
(* engine_temperature in units of 1/10000, latitude and longitude in       *)
(* units of 1/1000000 degree, direction in quarter degrees, time in whole  *)
(* seconds.                                                                *)
(***************************************************************************)
EXTENDS Integers, Sequences, FiniteSets, TLC

(***************************************************************************)
(* Bounds of the model.                                                    *)
(***************************************************************************)
\* Times the clock is read to have advanced, at most.
MaxAdvances == 2
\* A long pause of the clock (seconds), beside the pause of one second.
LongDelay == 20
\* Events from outside the loops (REST calls, faults, viewers going away,
\* clock advances) that happen at most, all kinds together.
MaxEvents == 2
\* Viewers that go away, at most.
MaxCloses == 1
\* REST calls create_vehicle that are made at most.
MaxCreates == 1
\* REST calls delete_vehicle that are made at most.
MaxDeletes == 1
\* Failures of a database call (find, insert_one) that are injected at most.
MaxFaults == 1
\* Ticks that all the loops together start at most.
MaxTicks == 2
\* Calls of the ConnectionManager's methods made by HubSpec at most.
MaxHubCalls == 5
\* Steps of one vehicle made by SimSpec at most.
MaxSimSteps == 2
\* calls of update_vehicle
MaxUpdates == 1
\* The longest time (seconds) between two steps in SimSpec.
LongestDelay == 300

(***************************************************************************)
(* Identities.                                                             *)
(***************************************************************************)
\* The WebSocket objects.
WebSockets == {"w1", "w2", "w3"}
\* Those that viewers of /ws/telemetry open: each is handed to one call of
\* websocket_telemetry.
Viewers == {"w1", "w2"}
\* The uuid4 values Vehicle.id can draw.
VehicleIds == {"v1", "v2"}
\* The order in which the model hands them out (the draw is symmetric).
IdOrder == [v1 |-> 1, v2 |-> 2]

U == 10 * 1000
Max(a, b) == IF a >= b THEN a ELSE b
Min(a, b) == IF a <= b THEN a ELSE b
NoState == [none |-> TRUE]

(***************************************************************************)
(* round(x, n) of Python: to the nearest multiple of q, ties to the even   *)
(* multiple.                                                               *)
(***************************************************************************)
round(x, q) ==
    LET lo == (x \div q) * q
        r  == x - lo
    IN  IF 2 * r < q THEN lo
        ELSE IF 2 * r > q THEN lo + q
        ELSE IF (lo \div q) % 2 = 0 THEN lo ELSE lo + q

(***************************************************************************)
(* direction is a float.  The model keeps it in quarter degrees (Deg(1) is *)
(* one degree) and rounds as binary floating point does, with a            *)
(* significand of 9 bits instead of 53: a value of 256 degrees or more is  *)
(* a whole number of degrees, one of 128 degrees or more a whole number of *)
(* half degrees, a smaller one a whole number of quarter degrees; a result *)
(* in between is rounded to the nearest, a tie to the even one.            *)
(***************************************************************************)
Deg(x) == 4 * x
Abs(x) == IF x < 0 THEN -x ELSE x
Sign(x) == IF x < 0 THEN -1 ELSE 1
fl(x) ==
    LET q == IF Abs(x) >= Deg(256) THEN 4 ELSE IF Abs(x) >= Deg(128) THEN 2 ELSE 1
    IN  Sign(x) * round(Abs(x), q)

\* x % y of two floats, y > 0: fmod(x, y), which is exact and has the sign
\* of x, and y added to it (a float addition, which rounds) if it is
\* negative.
fmod(x, y) == Sign(x) * (Abs(x) % y)
float_rem(x, y) ==
    LET mod == fmod(x, y)
    IN  IF mod < 0 THEN fl(mod + y) ELSE mod

(***************************************************************************)
(* math.cos and math.sin of math.radians(d), times 10000, from a table of  *)
(* the multiples of 30 degrees: the entry at or below d.                   *)
(***************************************************************************)
CosTable == <<10000, 8660, 5000, 0, -5000, -8660, -10000, -8660, -5000, 0, 5000, 8660>>
cos(d) == CosTable[(((d \div Deg(1)) % 360) \div 30) + 1]
sin(d) == cos(d + Deg(270))

(***************************************************************************)
(* TELEMETRY_THRESHOLDS, in dict order.                                    *)
(***************************************************************************)
Metrics == <<"speed", "engine_rpm", "fuel_level", "engine_temperature">>
\* A variant: the largest engine temperature allowed is 95 instead of 100.
ThresholdsWithLowerTemperature ==
    [speed              |-> [max |-> 120 * U,  min |-> 0],
     engine_rpm         |-> [max |-> 6000 * U, min |-> 800 * U],
     fuel_level         |-> [max |-> 100 * U,  min |-> 10 * U],
     engine_temperature |-> [max |-> 95 * U,   min |-> 80 * U]]

TELEMETRY_THRESHOLDS ==
    [speed              |-> [max |-> 120 * U,  min |-> 0],
     engine_rpm         |-> [max |-> 6000 * U, min |-> 800 * U],
     fuel_level         |-> [max |-> 100 * U,  min |-> 10 * U],
     engine_temperature |-> [max |-> 100 * U,  min |-> 80 * U]]

(***************************************************************************)
(* The values random.uniform and random.random return, as the model draws  *)
(* them.  InitDraws: initialize_vehicle_state; StepDraws: one call of      *)
(* simulate_realistic_telemetry (speed: uniform(-5, 5) per second; rpm:    *)
(* uniform(-200, 200); turn: whether random() < 0.1; delta: uniform(-30,   *)
(* 30)).                                                                   *)
(***************************************************************************)
InitDraws ==
    {[speed |-> 80 * U, engine_rpm |-> 2500 * U, fuel_level |-> 50 * U,
      engine_temperature |-> 95 * U, lat |-> 100000, lng |-> -100000,
      direction |-> Deg(30)]}
StepDraws ==
    {[speed |-> 5 * U,  rpm |-> 200 * U,  turn |-> FALSE, delta |-> 0],
     [speed |-> -5 * U, rpm |-> 200 * U,  turn |-> FALSE, delta |-> 0]}

(***************************************************************************)
(* initialize_vehicle_state                                                *)
(***************************************************************************)
\* A variant: last_update is set a second ahead of the clock.
InitializeAhead(d, current_time) ==
    [speed              |-> d.speed,
     engine_rpm         |-> d.engine_rpm,
     fuel_level         |-> d.fuel_level,
     engine_temperature |-> d.engine_temperature,
     latitude           |-> 37774900 + d.lat,
     longitude          |-> -122419400 + d.lng,
     direction          |-> d.direction,
     last_update        |-> current_time + 1]

initialize_vehicle_state(d, current_time) ==
    [speed              |-> d.speed,
     engine_rpm         |-> d.engine_rpm,
     fuel_level         |-> d.fuel_level,
     engine_temperature |-> d.engine_temperature,
     latitude           |-> 37774900 + d.lat,
     longitude          |-> -122419400 + d.lng,
     direction          |-> d.direction,
     last_update        |-> current_time]

(***************************************************************************)
(* simulate_realistic_telemetry: the state after the step, and the sample  *)
(* it returns.                                                             *)
(***************************************************************************)
\* A variant: the fuel burnt in a step does not depend on the time elapsed.
StepBurningPerCall(state, current_time, d) ==
    LET time_diff   == current_time - state.last_update
        speed       == Max(0, Min(140 * U, state.speed + d.speed * time_diff))
        target_rpm  == speed * 35 + d.rpm
        engine_rpm  == Max(800 * U, Min(6500 * U, target_rpm))
        fuel_consumption_rate == (speed \div 1000) + (engine_rpm \div 10000)
        fuel_level  == Max(0, state.fuel_level - fuel_consumption_rate)
        temp_target == 90 * U + ((engine_rpm - 2000 * U) \div 200)
        temp_change ==
            ((temp_target - state.engine_temperature) * time_diff) \div 10
        engine_temperature ==
            Max(70 * U, Min(120 * U, state.engine_temperature + temp_change))
        movement_distance == (speed * time_diff) \div 3996
        direction   == IF d.turn
                       THEN float_rem(fl(state.direction + d.delta), Deg(360))
                       ELSE state.direction
    IN  [speed              |-> speed,
         engine_rpm         |-> engine_rpm,
         fuel_level         |-> fuel_level,
         engine_temperature |-> engine_temperature,
         latitude  |-> state.latitude
                       + ((movement_distance * cos(state.direction)) \div 10000),
         longitude |-> state.longitude
                       + ((movement_distance * sin(state.direction)) \div 10000),
         direction          |-> direction,
         last_update        |-> current_time]

StepState(state, current_time, d) ==
    LET time_diff   == current_time - state.last_update
        speed       == Max(0, Min(140 * U, state.speed + d.speed * time_diff))
        target_rpm  == speed * 35 + d.rpm
        engine_rpm  == Max(800 * U, Min(6500 * U, target_rpm))
        fuel_consumption_rate ==
            ((speed \div 1000) + (engine_rpm \div 10000)) * time_diff
        fuel_level  == Max(0, state.fuel_level - fuel_consumption_rate)
        temp_target == 90 * U + ((engine_rpm - 2000 * U) \div 200)
        temp_change ==
            ((temp_target - state.engine_temperature) * time_diff) \div 10
        engine_temperature ==
            Max(70 * U, Min(120 * U, state.engine_temperature + temp_change))
        movement_distance == (speed * time_diff) \div 3996
        direction   == IF d.turn
                       THEN float_rem(fl(state.direction + d.delta), Deg(360))
                       ELSE state.direction
    IN  [speed              |-> speed,
         engine_rpm         |-> engine_rpm,
         fuel_level         |-> fuel_level,
         engine_temperature |-> engine_temperature,
         latitude  |-> state.latitude
                       + ((movement_distance * cos(state.direction)) \div 10000),
         longitude |-> state.longitude
                       + ((movement_distance * sin(state.direction)) \div 10000),
         direction          |-> direction,
         last_update        |-> current_time]

TelemetryData(vehicle_id, state, current_time) ==
    [vehicle_id         |-> vehicle_id,
     speed              |-> round(state.speed, 1000),
     engine_rpm         |-> round(state.engine_rpm, U),
     fuel_level         |-> round(state.fuel_level, 1000),
     engine_temperature |-> round(state.engine_temperature, 1000),
     latitude           |-> round(state.latitude, 1),
     longitude          |-> round(state.longitude, 1),
     timestamp          |-> current_time]

(***************************************************************************)
(* check_telemetry_alerts.  1.2 * max and 0.8 * min are the floats         *)
(* 144.0, 7200.0, 120.0 and 0.0, 640.0, 8.0, 64.0: max * 12 / 10 and       *)
(* min * 8 / 10 exactly.                                                   *)
(***************************************************************************)
\* A variant: the severity bounds 1.2 * max and 0.8 * min count as "high".
AlertForInclusive(telemetry, metric) ==
    LET value      == telemetry[metric]
        thresholds == TELEMETRY_THRESHOLDS[metric]
    IN  IF value > thresholds.max
        THEN <<[vehicle_id |-> telemetry.vehicle_id, metric |-> metric,
                value |-> value, threshold |-> thresholds.max,
                severity |-> IF value * 10 >= thresholds.max * 12
                             THEN "high" ELSE "medium",
                message |-> "critically high"]>>
        ELSE IF value < thresholds.min
        THEN <<[vehicle_id |-> telemetry.vehicle_id, metric |-> metric,
                value |-> value, threshold |-> thresholds.min,
                severity |-> IF value * 10 <= thresholds.min * 8
                             THEN "high" ELSE "medium",
                message |-> "critically low"]>>
        ELSE <<>>

AlertFor(telemetry, metric) ==
    LET value      == telemetry[metric]
        thresholds == TELEMETRY_THRESHOLDS[metric]
    IN  IF value > thresholds.max
        THEN <<[vehicle_id |-> telemetry.vehicle_id, metric |-> metric,
                value |-> value, threshold |-> thresholds.max,
                severity |-> IF value * 10 > thresholds.max * 12
                             THEN "high" ELSE "medium",
                message |-> "critically high"]>>
        ELSE IF value < thresholds.min
        THEN <<[vehicle_id |-> telemetry.vehicle_id, metric |-> metric,
                value |-> value, threshold |-> thresholds.min,
                severity |-> IF value * 10 < thresholds.min * 8
                             THEN "high" ELSE "medium",
                message |-> "critically low"]>>
        ELSE <<>>

\* A variant: the metrics taken in the opposite order.
AlertsInReverse(telemetry) ==
    AlertFor(telemetry, Metrics[4]) \o AlertFor(telemetry, Metrics[3])
    \o AlertFor(telemetry, Metrics[2]) \o AlertFor(telemetry, Metrics[1])

check_telemetry_alerts(telemetry) ==
    AlertFor(telemetry, Metrics[1]) \o AlertFor(telemetry, Metrics[2])
    \o AlertFor(telemetry, Metrics[3]) \o AlertFor(telemetry, Metrics[4])


(***************************************************************************)
(* State.                                                                  *)
(*                                                                         *)
(* active_connections  manager.active_connections                          *)
(* client[w]           the transport of WebSocket w: "idle" before the     *)
(*                     viewer connects, "open", "closed" once send_text    *)
(*                     on it fails                                         *)
(* task[w]             the call websocket_telemetry(w): where it is        *)
(*                     suspended (pc) and its locals                       *)
(* db_vehicles         the collection db.vehicles, in insertion order      *)
(* db_telemetry        the collection db.telemetry: id and vehicle_id of   *)
(*                     its documents                                       *)
(* vehicle_states      the global dict vehicle_states                      *)
(* creating, deleting  the calls of create_vehicle / delete_vehicle that   *)
(*                     are suspended at their database await               *)
(* updating            the calls of update_vehicle that are suspended at   *)
(*                     `await db.vehicles.find_one` (line 239)             *)
(* now                 datetime.now(timezone.utc), in seconds              *)
(* count               how often the bounded events have happened          *)
(* sim                 the last call made by SimSpec and AlertSpec (below) *)
(*                     and what it returned                                *)
(* History, read by the properties only: deleted, active_since,            *)
(* delivered, closed_at, hub_result, update_result (what the last call of  *)
(* update_vehicle returned), and in task[w] the fields sent,               *)
(* reg0, touched, broadcasts, cause.                                       *)
(***************************************************************************)
VARIABLES active_connections, client, task, db_vehicles, db_telemetry,
          vehicle_states, creating, deleting, now, count,
          deleted, active_since, delivered, closed_at, hub_result, sim,
          updating, update_result

vars == <<active_connections, client, task, db_vehicles, db_telemetry,
          vehicle_states, creating, deleting, now, count,
          deleted, active_since, delivered, closed_at, hub_result, sim,
          updating, update_result>>

NoMessage == [none |-> TRUE]
NoCall == [op |-> "none", websocket |-> "none", raised |-> "none"]
NoSim == [op |-> "none"]
NoResponse == [status |-> 0]

InitTask(w) ==
    [websocket |-> w, tick |-> 0, pc |-> "none", vehicles |-> <<>>, idx |-> 0, telemetry |-> NoState,
     all_telemetry |-> <<>>, all_alerts |-> <<>>, message |-> NoMessage,
     conn_iter |-> 0, connection |-> "none", wake_at |-> 0,
     sent |-> <<>>, reg0 |-> <<>>, touched |-> FALSE,
     broadcasts |-> 0, cause |-> "none"]

\* db.vehicles as the server finds it when it starts: the database outlives
\* the process, vehicle_states does not.
InitialVehicles ==
    {<<>>,
     <<[id |-> "v1", is_active |-> TRUE, name |-> "a"]>>,
     <<[id |-> "v1", is_active |-> TRUE, name |-> "a"],
       [id |-> "v2", is_active |-> TRUE, name |-> "a"]>>}
InSeq(s, v) == \E i \in 1..Len(s) : s[i].id = v

Init ==
    /\ active_connections = <<>>
    /\ client = [w \in WebSockets |-> "idle"]
    /\ task = [w \in WebSockets |-> InitTask(w)]
    /\ db_vehicles \in InitialVehicles
    /\ db_telemetry = {}
    /\ vehicle_states = [v \in VehicleIds |-> NoState]
    /\ creating = {}
    /\ deleting = {}
    /\ now = 0
    /\ count = [creates |-> 0, deletes |-> 0, faults |-> 0, ticks |-> 0,
                closes |-> 0, advances |-> 0, events |-> 0, hub |-> 0,
                updates |-> 0]
    /\ deleted = {}
    /\ active_since = [v \in VehicleIds |-> IF InSeq(db_vehicles, v) THEN 0 ELSE -1]
    /\ delivered = [w \in WebSockets |-> -1]
    /\ closed_at = [w \in WebSockets |-> -1]
    /\ hub_result = NoCall
    /\ sim = NoSim
    /\ updating = {}
    /\ update_result = NoResponse

Range(s) == {s[i] : i \in 1..Len(s)}
SelectIds(s) ==
    LET act == SelectSeq(s, LAMBDA r : r.is_active)
    IN  [i \in 1..Len(act) |-> act[i].id]
InDb(v) == \E i \in 1..Len(db_vehicles) : db_vehicles[i].id = v

(***************************************************************************)
(* ConnectionManager.broadcast.  on_send_error is the handler of the bare  *)
(* except around send_text: "pass".                                        *)
(***************************************************************************)
on_send_error == "pass"

\* broadcast has returned and the task suspends in asyncio.sleep(1).  The
\* lists all_telemetry and all_alerts are dead here (the loop assigns them
\* before it reads them again, and the message holds them); the model
\* forgets them.
Sleep(t) ==
    [t EXCEPT !.pc = "sleep", !.wake_at = now + 1, !.connection = "none",
              !.conn_iter = 0, !.all_telemetry = <<>>, !.all_alerts = <<>>]

\* send_text on c succeeds: the transport is open and the server has not
\* closed the WebSocket (it does when websocket_telemetry ends).
Open(c) == client[c] = "open" /\ task[c].pc # "crashed"

\* json.dumps(message) raises TypeError when data holds a sample: the dict
\* of a TelemetryData holds its timestamp as a datetime.
json_dumps_raises(message) == message.data # <<>>

FailedSends(from) ==
    [k \in 1..(Len(active_connections) - from + 1) |->
        [websocket |-> active_connections[from + k - 1], ok |-> FALSE]]

(***************************************************************************)
(* `for connection in self.active_connections` from element i of the list  *)
(* as it is now, up to the next await.  If json.dumps raises, it does so   *)
(* for every connection before send_text is called, the bare except        *)
(* swallows it, and the loop runs through without an await.  Otherwise     *)
(* send_text is called on element i: the text is written to the transport, *)
(* or the call fails because the transport is closed; and the task is      *)
(* suspended in the await.                                                 *)
(***************************************************************************)
SendFrom(t, i) ==
    IF i > Len(active_connections)
    THEN [task |-> Sleep(t), delivered |-> delivered]
    ELSE IF json_dumps_raises(t.message)
    THEN [task |-> IF on_send_error = "raise"
                   THEN [t EXCEPT !.pc = "crashed", !.cause = "send"]
                   ELSE Sleep([t EXCEPT !.sent = @ \o FailedSends(i)]),
          delivered |-> delivered]
    ELSE LET c  == active_connections[i]
             ok == Open(c)
         IN  [task |-> [t EXCEPT !.pc = "send", !.conn_iter = i,
                                 !.connection = c,
                                 !.sent = Append(@, [websocket |-> c, ok |-> ok])],
              delivered |-> IF ok
                            THEN [delivered EXCEPT ![c] = t.message.timestamp]
                            ELSE delivered]

\* The call manager.broadcast(message), up to its first await.
broadcast(t, msg) ==
    SendFrom([t EXCEPT !.message = msg, !.broadcasts = @ + 1, !.sent = <<>>,
                       !.reg0 = active_connections, !.touched = FALSE], 1)

(***************************************************************************)
(* The body of `for vehicle_data in vehicles` from vehicle i on, up to the *)
(* next await: the await of insert_one for vehicle i, or, after the last   *)
(* vehicle, the first await of broadcast.  t is the task with              *)
(* all_telemetry and all_alerts as they are before vehicle i; di and d are *)
(* the random draws of initialize_vehicle_state and of the step.           *)
(***************************************************************************)
\* list.append and list.extend
AppendOverwrites(l, x) == <<x>>
append(l, x) == Append(l, x)
extend(l, xs) == l \o xs

LoopBody(t, i, di, d) ==
    IF i <= Len(t.vehicles)
    THEN LET vehicle_id == t.vehicles[i]
             st0 == IF vehicle_states[vehicle_id] = NoState
                    THEN initialize_vehicle_state(di, now)
                    ELSE vehicle_states[vehicle_id]
             st1 == StepState(st0, now, d)
             telemetry == [id |-> <<t.websocket, t.tick, i>>]
                          @@ TelemetryData(vehicle_id, st1, now)
         IN  [task    |-> [t EXCEPT !.pc = "insert", !.idx = i,
                                    !.telemetry = telemetry],
              states  |-> [vehicle_states EXCEPT ![vehicle_id] = st1],
              delivered |-> delivered]
    ELSE LET message == [type |-> "telemetry_update", timestamp |-> now,
                         data |-> t.all_telemetry, alerts |-> t.all_alerts]
             b == broadcast([t EXCEPT !.telemetry = NoState], message)
         IN  [task    |-> b.task,
              states  |-> vehicle_states,
              delivered |-> b.delivered]

\* The top of `while True`, up to the await of find.
LoopTop(t) ==
    [t EXCEPT !.pc = "find", !.tick = @ + 1, !.all_telemetry = <<>>,
              !.all_alerts = <<>>, !.vehicles = <<>>, !.idx = 0,
              !.message = NoMessage, !.sent = <<>>, !.reg0 = <<>>,
              !.touched = FALSE, !.broadcasts = 0]

\* An exception that leaves websocket_telemetry: the task ends (and the
\* server closes its WebSocket).  The connection stays in the registry.
Raise(w, why) ==
    task' = [task EXCEPT ![w] = [@ EXCEPT !.pc = "crashed", !.cause = why]]


(***************************************************************************)
(* websocket_telemetry(w)                                                  *)
(***************************************************************************)
\* A viewer opens /ws/telemetry: the server calls websocket_telemetry(w),
\* which suspends in manager.connect at `await websocket.accept()`.
ViewerConnect(w) ==
    /\ task[w].pc = "none"
    /\ count.ticks < MaxTicks
    /\ task' = [task EXCEPT ![w] = [@ EXCEPT !.pc = "accept"]]
    /\ client' = [client EXCEPT ![w] = "open"]
    /\ count' = [count EXCEPT !.ticks = @ + 1]
    /\ UNCHANGED <<active_connections, db_vehicles, db_telemetry,
                   vehicle_states, creating, deleting, now, deleted,
                   active_since, delivered, closed_at, hub_result>>
    /\ UNCHANGED <<sim, updating, update_result>>

\* accept returns: connect appends the WebSocket, and the loop runs to the
\* await of find.  An attach during another task's broadcast is recorded
\* in that task's touched.
Touch(w) ==
    [x \in WebSockets |->
        IF x # w /\ task[x].pc = "send"
        THEN [task[x] EXCEPT !.touched = TRUE] ELSE task[x]]

connect(w) ==
    /\ task[w].pc = "accept"
    /\ active_connections' = Append(active_connections, w)
    /\ task' = [Touch(w) EXCEPT ![w] = LoopTop(task[w])]
    /\ UNCHANGED <<client, db_vehicles, db_telemetry, vehicle_states,
                   creating, deleting, now, count, deleted,
                   active_since, delivered, closed_at, hub_result>>
    /\ UNCHANGED <<sim, updating, update_result>>

\* The database answers find({"is_active": True}).to_list(100).
DbFind(w) ==
    /\ task[w].pc = "find"
    /\ task' = [task EXCEPT ![w] =
                   [@ EXCEPT !.pc = "found", !.vehicles = SelectIds(db_vehicles)]]
    /\ UNCHANGED <<active_connections, client, db_vehicles, db_telemetry,
                   vehicle_states, creating, deleting, now, count,
                   deleted, active_since, delivered, closed_at, hub_result>>
    /\ UNCHANGED <<sim, updating, update_result>>

\* find raises (the database is unreachable): no except clause of
\* websocket_telemetry catches it.
FindFails(w) ==
    /\ task[w].pc = "find"
    /\ count.faults < MaxFaults
    /\ count.events < MaxEvents
    /\ count' = [count EXCEPT !.faults = @ + 1, !.events = @ + 1]
    /\ Raise(w, "find")
    /\ UNCHANGED <<active_connections, client, db_vehicles, db_telemetry,
                   vehicle_states, creating, deleting, now, deleted,
                   active_since, delivered, closed_at, hub_result>>
    /\ UNCHANGED <<sim, updating, update_result>>

\* The task resumes with the vehicles and runs the loop body to its next
\* await.
FindReturns(w) ==
    /\ task[w].pc = "found"
    /\ \E di \in InitDraws, d \in StepDraws :
          LET r == LoopBody(task[w], 1, di, d)
          IN  /\ task' = [task EXCEPT ![w] = r.task]
              /\ vehicle_states' = r.states
              /\ delivered' = r.delivered
    /\ UNCHANGED <<active_connections, client, db_vehicles, db_telemetry,
                   creating, deleting, now, count, deleted, active_since,
                   closed_at, hub_result>>
    /\ UNCHANGED <<sim, updating, update_result>>

\* insert_one returns: the sample is stored, checked and appended, and the
\* loop body goes on with the next vehicle.
InsertReturns(w) ==
    /\ task[w].pc = "insert"
    /\ db_telemetry' = db_telemetry \cup {[id |-> task[w].telemetry.id,
                                        vehicle_id |-> task[w].telemetry.vehicle_id]}
    /\ \E di \in InitDraws, d \in StepDraws :
          LET t  == task[w]
              alerts == check_telemetry_alerts(t.telemetry)
              t1 == [t EXCEPT !.all_alerts = extend(@, alerts),
                              !.all_telemetry = append(@, t.telemetry)]
              r  == LoopBody(t1, t.idx + 1, di, d)
          IN  /\ task' = [task EXCEPT ![w] = r.task]
              /\ vehicle_states' = r.states
              /\ delivered' = r.delivered
    /\ UNCHANGED <<active_connections, client, db_vehicles, creating,
                   deleting, now, count, deleted, active_since, closed_at,
                   hub_result>>
    /\ UNCHANGED <<sim, updating, update_result>>

\* insert_one raises: no except clause of websocket_telemetry catches it.
InsertFails(w) ==
    /\ task[w].pc = "insert"
    /\ count.faults < MaxFaults
    /\ count.events < MaxEvents
    /\ count' = [count EXCEPT !.faults = @ + 1, !.events = @ + 1]
    /\ Raise(w, "insert")
    /\ UNCHANGED <<active_connections, client, db_vehicles, db_telemetry,
                   vehicle_states, creating, deleting, now, deleted,
                   active_since, delivered, closed_at, hub_result>>
    /\ UNCHANGED <<sim, updating, update_result>>

\* The await of send_text ends.  If the send had failed, the bare except
\* swallows the exception.  Then the loop goes on with the next element of
\* the list as it is now, or it ends and broadcast returns to
\* `await asyncio.sleep(1)`.
SendReturns(w) ==
    /\ task[w].pc = "send"
    /\ LET t == task[w]
       IN  IF ~t.sent[Len(t.sent)].ok /\ on_send_error = "raise"
           THEN /\ Raise(w, "send")
                /\ UNCHANGED delivered
           ELSE LET r == SendFrom(t, t.conn_iter + 1)
                IN  /\ task' = [task EXCEPT ![w] = r.task]
                    /\ delivered' = r.delivered
    /\ UNCHANGED <<active_connections, client, db_vehicles, db_telemetry,
                   vehicle_states, creating, deleting, now, count,
                   deleted, active_since, closed_at, hub_result>>
    /\ UNCHANGED <<sim, updating, update_result>>

\* asyncio.sleep(1) returns, not before a second has passed, and the loop
\* runs to the await of find.
SleepReturns(w) ==
    /\ task[w].pc = "sleep"
    /\ now >= task[w].wake_at
    /\ count.ticks < MaxTicks
    /\ count' = [count EXCEPT !.ticks = @ + 1]
    /\ task' = [task EXCEPT ![w] = LoopTop(@)]
    /\ UNCHANGED <<active_connections, client, db_vehicles, db_telemetry,
                   vehicle_states, creating, deleting, now, deleted,
                   active_since, delivered, closed_at, hub_result>>
    /\ UNCHANGED <<sim, updating, update_result>>

\* The viewer goes away: from now on send_text on its WebSocket fails.
ViewerDisconnects(w) ==
    /\ client[w] = "open"
    /\ task[w].pc \notin {"none", "accept"}
    /\ count.closes < MaxCloses
    /\ count.events < MaxEvents
    /\ count' = [count EXCEPT !.closes = @ + 1, !.events = @ + 1]
    /\ client' = [client EXCEPT ![w] = "closed"]
    /\ closed_at' = [closed_at EXCEPT ![w] = now]
    /\ UNCHANGED <<active_connections, task, db_vehicles, db_telemetry,
                   vehicle_states, creating, deleting, now,
                   deleted, active_since, delivered, hub_result>>
    /\ UNCHANGED <<sim, updating, update_result>>

(***************************************************************************)
(* create_vehicle and delete_vehicle                                       *)
(***************************************************************************)
\* The database executes insert_one of create_vehicle for a new uuid4.
CreateInsert(v) ==
    /\ ~InDb(v)
    /\ \A u \in VehicleIds : IdOrder[u] < IdOrder[v] => InDb(u)
    /\ count.creates < MaxCreates
    /\ count.events < MaxEvents
    /\ count' = [count EXCEPT !.creates = @ + 1, !.events = @ + 1]
    /\ db_vehicles' = Append(db_vehicles,
                              [id |-> v, is_active |-> TRUE, name |-> "a"])
    /\ creating' = creating \cup {v}
    /\ active_since' = [active_since EXCEPT ![v] = now]
    /\ UNCHANGED <<active_connections, client, task, db_telemetry,
                   vehicle_states, deleting, now, deleted,
                   delivered, closed_at, hub_result>>
    /\ UNCHANGED <<sim, updating, update_result>>

\* create_vehicle resumes and initializes the simulation state.
CreateReturns(v) ==
    /\ v \in creating
    /\ creating' = creating \ {v}
    /\ \E di \in InitDraws :
          vehicle_states' = [vehicle_states EXCEPT ![v] = initialize_vehicle_state(di, now)]
    /\ UNCHANGED <<active_connections, client, task, db_vehicles,
                   db_telemetry, deleting, now, count, deleted,
                   active_since, delivered, closed_at, hub_result>>
    /\ UNCHANGED <<sim, updating, update_result>>

\* The database executes update_one of delete_vehicle; it matches the
\* vehicle whether it is active or not.
DeleteUpdate(v) ==
    /\ InDb(v)
    /\ v \notin deleting
    /\ count.deletes < MaxDeletes
    /\ count.events < MaxEvents
    /\ count' = [count EXCEPT !.deletes = @ + 1, !.events = @ + 1]
    /\ db_vehicles' = [i \in 1..Len(db_vehicles) |->
                          IF db_vehicles[i].id = v
                          THEN [db_vehicles[i] EXCEPT !.is_active = FALSE]
                          ELSE db_vehicles[i]]
    /\ deleting' = deleting \cup {v}
    /\ UNCHANGED <<active_connections, client, task, db_telemetry,
                   vehicle_states, creating, now, deleted,
                   active_since, delivered, closed_at, hub_result>>
    /\ UNCHANGED <<sim, updating, update_result>>

\* delete_vehicle resumes and removes the vehicle from the simulation.
DeleteReturns(v) ==
    /\ v \in deleting
    /\ deleting' = deleting \ {v}
    /\ vehicle_states' = [vehicle_states EXCEPT ![v] = NoState]
    /\ deleted' = deleted \cup {v}
    /\ UNCHANGED <<active_connections, client, task, db_vehicles,
                   db_telemetry, creating, now, count,
                   active_since, delivered, closed_at, hub_result>>
    /\ UNCHANGED <<sim, updating, update_result>>

(***************************************************************************)
(* The clock.                                                              *)
(***************************************************************************)
Advance(d) ==
    /\ count.advances < MaxAdvances
    /\ count.events < MaxEvents
    /\ count' = [count EXCEPT !.advances = @ + 1, !.events = @ + 1]
    /\ now' = now + d
    /\ UNCHANGED <<active_connections, client, task, db_vehicles,
                   db_telemetry, vehicle_states, creating, deleting,
                   deleted, active_since, delivered, closed_at, hub_result>>
    /\ UNCHANGED <<sim, updating, update_result>>

(***************************************************************************)
(* update_vehicle                                                          *)
(***************************************************************************)
\* The bodies a client can send: VehicleCreate, whose field name stands
\* for name, model, year and license_plate.
VehicleCreate == {[name |-> n] : n \in {"a", "b"}}

\* A variant: the document of $set also carries Vehicle's default of
\* is_active.
SetWithDefaults(document, vehicle_id, vehicle_data) ==
    [document EXCEPT !.name = vehicle_data.name, !.id = vehicle_id,
                     !.is_active = TRUE]

\* {"$set": vehicle_dict}: the fields of VehicleCreate, and id.
set_vehicle_dict(document, vehicle_id, vehicle_data) ==
    [document EXCEPT !.name = vehicle_data.name, !.id = vehicle_id]

\* The document that update_one and find_one take for {"id": v}.
FirstMatch(v) ==
    CHOOSE i \in 1..Len(db_vehicles) :
        /\ db_vehicles[i].id = v
        /\ \A j \in 1..(i - 1) : db_vehicles[j].id # v

\* The database executes update_one of update_vehicle.  It matches the
\* vehicle whether it is active or not; when it matches none, the call
\* ends with HTTPException(404).
UpdateSet(v, vehicle_data) ==
    /\ v \notin updating
    /\ count.updates < MaxUpdates
    /\ count.events < MaxEvents
    /\ count' = [count EXCEPT !.updates = @ + 1, !.events = @ + 1]
    /\ IF InDb(v)
       THEN /\ db_vehicles' = [db_vehicles EXCEPT ![FirstMatch(v)] =
                                  set_vehicle_dict(@, v, vehicle_data)]
            /\ updating' = updating \cup {v}
            /\ UNCHANGED update_result
       ELSE /\ update_result' = [status |-> 404]
            /\ UNCHANGED <<db_vehicles, updating>>
    /\ UNCHANGED <<active_connections, client, task, db_telemetry,
                   vehicle_states, creating, deleting, now, deleted,
                   active_since, delivered, closed_at, hub_result, sim>>

\* The database answers find_one, and update_vehicle returns the document
\* as a Vehicle.
UpdateReturns(v) ==
    /\ v \in updating
    /\ updating' = updating \ {v}
    /\ update_result' = [status |-> 200, vehicle |-> db_vehicles[FirstMatch(v)]]
    /\ UNCHANGED <<active_connections, client, task, db_vehicles,
                   db_telemetry, vehicle_states, creating, deleting, now,
                   count, deleted, active_since, delivered, closed_at,
                   hub_result, sim>>

Next ==
    \/ \E w \in Viewers :
          \/ ViewerConnect(w)
          \/ connect(w)
          \/ DbFind(w)
          \/ FindFails(w)
          \/ FindReturns(w)
          \/ InsertReturns(w)
          \/ InsertFails(w)
          \/ SendReturns(w)
          \/ SleepReturns(w)
          \/ ViewerDisconnects(w)
    \/ \E v \in VehicleIds :
          \/ CreateInsert(v)
          \/ CreateReturns(v)
          \/ DeleteUpdate(v)
          \/ DeleteReturns(v)
          \/ \E vehicle_data \in VehicleCreate : UpdateSet(v, vehicle_data)
          \/ UpdateReturns(v)
    \/ \E d \in {1, LongDelay} : Advance(d)

Spec == Init /\ [][Next]_vars


(***************************************************************************)
(* The ConnectionManager on its own: its methods called in any order by    *)
(* any callers.  Caller b of broadcast uses the record task[b].            *)
(***************************************************************************)
TouchAll ==
    [x \in WebSockets |->
        IF task[x].pc = "send" THEN [task[x] EXCEPT !.touched = TRUE] ELSE task[x]]

Remove(s, w) ==
    LET i == CHOOSE k \in 1..Len(s) : s[k] = w /\ \A j \in 1..(k - 1) : s[j] # w
    IN  [k \in 1..(Len(s) - 1) |-> IF k < i THEN s[k] ELSE s[k + 1]]

\* manager.connect(w) for a WebSocket that is not accepted yet (accept
\* raises on one that is).
HubConnect(w) ==
    /\ client[w] = "idle"
    /\ count.hub < MaxHubCalls
    /\ count' = [count EXCEPT !.hub = @ + 1]
    /\ client' = [client EXCEPT ![w] = "open"]
    /\ active_connections' = Append(active_connections, w)
    /\ task' = TouchAll
    /\ hub_result' = [op |-> "connect", websocket |-> w, raised |-> "no"]
    /\ UNCHANGED <<db_vehicles, db_telemetry, vehicle_states, creating,
                   deleting, now, deleted, active_since, delivered, closed_at>>
    /\ UNCHANGED <<sim, updating, update_result>>

\* manager.disconnect(w): list.remove(w) removes the first w of the list
\* and raises ValueError when there is none.
disconnect(w) ==
    /\ count.hub < MaxHubCalls
    /\ count' = [count EXCEPT !.hub = @ + 1]
    /\ IF w \in Range(active_connections)
       THEN /\ active_connections' = Remove(active_connections, w)
            /\ task' = TouchAll
            /\ hub_result' = [op |-> "disconnect", websocket |-> w, raised |-> "no"]
       ELSE /\ hub_result' = [op |-> "disconnect", websocket |-> w,
                              raised |-> "ValueError"]
            /\ UNCHANGED <<active_connections, task>>
    /\ UNCHANGED <<client, db_vehicles, db_telemetry, vehicle_states,
                   creating, deleting, now, deleted, active_since, delivered,
                   closed_at>>
    /\ UNCHANGED <<sim, updating, update_result>>

\* manager.broadcast(message), up to its first await.
HubBroadcast(b) ==
    /\ task[b].pc \in {"none", "sleep"}
    /\ count.hub < MaxHubCalls
    /\ count' = [count EXCEPT !.hub = @ + 1]
    /\ \E data \in {<<>>, <<[timestamp |-> now]>>} :
          LET r == broadcast(task[b], [type |-> "message", timestamp |-> now,
                                        data |-> data, alerts |-> <<>>])
          IN  /\ task' = [task EXCEPT ![b] = r.task]
              /\ delivered' = r.delivered
    /\ hub_result' = [op |-> "broadcast", websocket |-> b, raised |-> "no"]
    /\ UNCHANGED <<active_connections, client, db_vehicles, db_telemetry,
                   vehicle_states, creating, deleting, now, deleted,
                   active_since, closed_at>>
    /\ UNCHANGED <<sim, updating, update_result>>

\* The transport of w closes: send_text on it fails from now on.
TransportCloses(w) ==
    /\ client[w] = "open"
    /\ count.hub < MaxHubCalls
    /\ count' = [count EXCEPT !.hub = @ + 1]
    /\ client' = [client EXCEPT ![w] = "closed"]
    /\ closed_at' = [closed_at EXCEPT ![w] = now]
    /\ UNCHANGED <<active_connections, task, db_vehicles, db_telemetry,
                   vehicle_states, creating, deleting, now, deleted,
                   active_since, delivered, hub_result>>
    /\ UNCHANGED <<sim, updating, update_result>>

HubNext ==
    \E w \in WebSockets :
        \/ HubConnect(w)
        \/ disconnect(w)
        \/ HubBroadcast(w)
        \/ SendReturns(w)
        \/ TransportCloses(w)

HubInit == Init /\ db_vehicles = <<>>

HubSpec == HubInit /\ [][HubNext]_vars

(***************************************************************************)
(* The simulator on its own: one vehicle's state made by                   *)
(* initialize_vehicle_state and stepped by simulate_realistic_telemetry    *)
(* after any elapsed time, each sample checked by check_telemetry_alerts.  *)
(* The draws are the ends of the ranges of random.uniform, and for the     *)
(* direction change also the smallest negative sum.                        *)
(***************************************************************************)
SimVehicle == "v1"
SimInitDraws ==
    {[speed |-> sp * U, engine_rpm |-> rpm * U, fuel_level |-> fuel * U,
      engine_temperature |-> temp * U, lat |-> 100000, lng |-> -100000,
      direction |-> dir] :
        sp \in {60, 80}, rpm \in {1500, 2500}, fuel \in {50, 100},
        temp \in {85, 95}, dir \in {0, Deg(30), Deg(359)}}
SimTurns ==
    {[turn |-> FALSE, delta |-> 0]}
    \cup {[turn |-> TRUE, delta |-> delta] : delta \in {Deg(-30), -1, Deg(30)}}
SimStepDraws ==
    {[speed |-> sp * U, rpm |-> rpm * U, turn |-> t.turn, delta |-> t.delta] :
        sp \in {-5, 5}, rpm \in {-200, 200}, t \in SimTurns}
SimDelays == {0, 1, LongestDelay}

SimInitialize ==
    /\ vehicle_states[SimVehicle] = NoState
    /\ \E di \in SimInitDraws :
          vehicle_states' = [vehicle_states EXCEPT
                                ![SimVehicle] = initialize_vehicle_state(di, now)]
    /\ sim' = [op |-> "initialize", steps |-> 0]
    /\ UNCHANGED <<active_connections, client, task, db_vehicles,
                   db_telemetry, creating, deleting, now, count, deleted,
                   active_since, delivered, closed_at, hub_result,
                   updating, update_result>>

\* The clock has advanced by dt, and simulate_realistic_telemetry and
\* check_telemetry_alerts are called as at lines 331 and 337.
SimStep ==
    /\ vehicle_states[SimVehicle] # NoState
    /\ sim.steps < MaxSimSteps
    /\ \E dt \in SimDelays, d \in SimStepDraws :
          LET state0    == vehicle_states[SimVehicle]
              state1    == StepState(state0, now + dt, d)
              telemetry == TelemetryData(SimVehicle, state1, now + dt)
          IN  /\ now' = now + dt
              /\ vehicle_states' = [vehicle_states EXCEPT ![SimVehicle] = state1]
              /\ sim' = [op |-> "step", steps |-> sim.steps + 1,
                         before |-> state0, draw |-> d, time_diff |-> dt,
                         telemetry |-> telemetry,
                         alerts |-> check_telemetry_alerts(telemetry)]
    /\ UNCHANGED <<active_connections, client, task, db_vehicles,
                   db_telemetry, creating, deleting, count, deleted,
                   active_since, delivered, closed_at, hub_result,
                   updating, update_result>>

SimNext == SimInitialize \/ SimStep

SimInit == Init /\ db_vehicles = <<>>

SimSpec == SimInit /\ [][SimNext]_vars

(***************************************************************************)
(* check_telemetry_alerts on its own: called with any sample whose values  *)
(* are at, next to or away from the thresholds and the severity bounds.    *)
(***************************************************************************)
AlertValues ==
    [speed              |-> {-1 * U, 0, 60 * U, 120 * U, 120 * U + 1000,
                             144 * U, 144 * U + 1000, 145 * U},
     engine_rpm         |-> {639 * U, 640 * U, 799 * U, 800 * U, 3000 * U,
                             6000 * U, 6001 * U, 7200 * U, 7201 * U},
     fuel_level         |-> {5 * U, 8 * U - 1000, 8 * U, 10 * U - 1000, 10 * U,
                             50 * U, 100 * U, 100 * U + 1000, 120 * U,
                             120 * U + 1000},
     engine_temperature |-> {64 * U - 1000, 64 * U, 80 * U - 1000, 80 * U,
                             90 * U, 100 * U, 100 * U + 1000, 120 * U,
                             120 * U + 1000}]
AlertSamples ==
    {[vehicle_id |-> SimVehicle, speed |-> sp, engine_rpm |-> rpm,
      fuel_level |-> fuel, engine_temperature |-> temp] :
        sp \in AlertValues.speed, rpm \in AlertValues.engine_rpm,
        fuel \in AlertValues.fuel_level,
        temp \in AlertValues.engine_temperature}

CheckAlerts ==
    /\ sim.op = "sample"
    /\ sim' = [op |-> "checked", telemetry |-> sim.telemetry,
               alerts |-> check_telemetry_alerts(sim.telemetry)]
    /\ UNCHANGED <<active_connections, client, task, db_vehicles,
                   db_telemetry, vehicle_states, creating, deleting, now,
                   count, deleted, active_since, delivered, closed_at,
                   hub_result, updating, update_result>>

AlertNext == CheckAlerts

AlertInit ==
    /\ active_connections = <<>>
    /\ client = [w \in WebSockets |-> "idle"]
    /\ task = [w \in WebSockets |-> InitTask(w)]
    /\ db_vehicles = <<>>
    /\ db_telemetry = {}
    /\ vehicle_states = [v \in VehicleIds |-> NoState]
    /\ creating = {}
    /\ deleting = {}
    /\ now = 0
    /\ count = [creates |-> 0, deletes |-> 0, faults |-> 0, ticks |-> 0,
                closes |-> 0, advances |-> 0, events |-> 0, hub |-> 0,
                updates |-> 0]
    /\ deleted = {}
    /\ active_since = [v \in VehicleIds |-> -1]
    /\ delivered = [w \in WebSockets |-> -1]
    /\ closed_at = [w \in WebSockets |-> -1]
    /\ hub_result = NoCall
    /\ \E s \in AlertSamples : sim = [op |-> "sample", telemetry |-> s]
    /\ updating = {}
    /\ update_result = NoResponse

AlertSpec == AlertInit /\ [][AlertNext]_vars


(***************************************************************************)
(* C1.  A broadcast during which no connection is attached or detached     *)
(* makes one attempt for every registered connection, in list order,       *)
(* whichever of the attempts fail; it raises nothing to its caller and     *)
(* leaves the registry as it was; and when it has returned, every          *)
(* registered connection whose transport is open has been sent the         *)
(* message.                                                                *)
(***************************************************************************)
SentTo(t) == [i \in 1..Len(t.sent) |-> t.sent[i].websocket]

C1_BroadcastIsolatesFailures ==
    \A b \in WebSockets :
        LET t == task[b]
        IN  /\ t.cause # "send"
            /\ (t.pc = "sleep" /\ ~t.touched) =>
                   /\ SentTo(t) = t.reg0
                   /\ \A i \in 1..Len(t.reg0) :
                         client[t.reg0[i]] = "open" => t.sent[i].ok
            /\ (t.pc = "send" /\ ~t.touched) =>
                   /\ SentTo(t) = SubSeq(t.reg0, 1, t.conn_iter)
                   /\ t.connection = t.reg0[t.conn_iter]
                   /\ active_connections = t.reg0


(***************************************************************************)
(* C8.  disconnect returns normally whether or not the connection is       *)
(* registered: no call of it raises.                                       *)
(***************************************************************************)
C8_DisconnectIgnoresAbsent ==
    hub_result.op = "disconnect" => hub_result.raised = "no"


(***************************************************************************)
(* The claims about the running server (Spec).                             *)
(***************************************************************************)
Looping == {"find", "found", "insert", "send", "sleep"}
IsActive(v) ==
    \E i \in 1..Len(db_vehicles) : db_vehicles[i].id = v /\ db_vehicles[i].is_active

(***************************************************************************)
(* C2.  Once delete_vehicle has completed for a vehicle, vehicle_states    *)
(* holds no entry for it: none is there when a later tick begins, and none *)
(* is created again.  (Stated of the runs without a call of                *)
(* create_vehicle: the claim is about delete_vehicle and the ticks.)       *)
(***************************************************************************)
C2_DeletedStateStaysAbsent ==
    count.creates = 0 => \A v \in deleted : vehicle_states[v] = NoState

(***************************************************************************)
(* C3.  A tick calls broadcast once, after its last vehicle: before that   *)
(* call it has made none, and the batch it then sends holds, in the order  *)
(* of the snapshot this tick fetched, one sample of this tick for each     *)
(* vehicle of the snapshot, and the alerts of exactly these samples.       *)
(***************************************************************************)
RECURSIVE AlertsOf(_)
AlertsOf(data) ==
    IF data = <<>> THEN <<>>
    ELSE check_telemetry_alerts(Head(data)) \o AlertsOf(Tail(data))

C3_OneConsistentBatchPerTick ==
    \A w \in Viewers :
        LET t == task[w]
        IN  /\ t.pc \in {"find", "found", "insert"} => t.broadcasts = 0
            /\ t.pc \in {"send", "sleep"} =>
                  /\ t.broadcasts = 1
                  /\ t.idx = Len(t.vehicles)
                  /\ Len(t.message.data) = Len(t.vehicles)
                  /\ \A i \in 1..Len(t.vehicles) :
                        /\ t.message.data[i].vehicle_id = t.vehicles[i]
                        /\ t.message.data[i].id = <<w, t.tick, i>>
                        /\ \A j \in 1..Len(t.vehicles) :
                              t.vehicles[i] = t.vehicles[j] => i = j
                  /\ t.message.alerts = AlertsOf(t.message.data)

\* A tick has published a batch of two samples with at least one alert.
C3_Witness ==
    \E w \in Viewers :
        /\ task[w].pc = "sleep"
        /\ Len(task[w].message.data) = 2
        /\ task[w].message.alerts # <<>>

(***************************************************************************)
(* C4.  With no viewer connected, a vehicle that has been active for two   *)
(* tick periods has been stepped and its sample persisted.                 *)
(***************************************************************************)
C4_TicksWithoutViewers ==
    \A v \in VehicleIds :
        (/\ \A w \in WebSockets : task[w].pc = "none"
         /\ IsActive(v)
         /\ now >= active_since[v] + 2)
        => \E doc \in db_telemetry : doc.vehicle_id = v

(***************************************************************************)
(* C5.  At most one simulation loop is running.                            *)
(***************************************************************************)
C5_AtMostOneLoop ==
    Cardinality({w \in Viewers : task[w].pc \in Looping}) <= 1

(***************************************************************************)
(* C6.  The batches delivered to a connection have non-decreasing batch    *)
(* timestamps: no delivery carries a batch assembled before the batch      *)
(* delivered to that connection last.                                      *)
(***************************************************************************)
C6_DeliveredInTickOrder ==
    [][\A w \in WebSockets : delivered'[w] >= delivered[w]]_vars

(***************************************************************************)
(* C7.  A broadcast that starts more than one tick period after a viewer   *)
(* went away does not find that viewer's connection in the registry and    *)
(* attempts no send to it.                                                 *)
(***************************************************************************)
C7_DisconnectedViewerDropped ==
    \A w \in Viewers, c \in WebSockets :
        LET t == task[w]
        IN  (/\ t.pc \in {"send", "sleep"}
             /\ closed_at[c] >= 0
             /\ t.message.timestamp > closed_at[c] + 1)
            => /\ c \notin Range(t.reg0)
               /\ c \notin Range(SentTo(t))

(***************************************************************************)
(* C9.  A failure of insert_one does not end the loop of the task it       *)
(* happens in.                                                             *)
(***************************************************************************)
C9_PersistFailureConfined ==
    \A w \in Viewers : task[w].cause = "insert" => task[w].pc \in Looping

(***************************************************************************)
(* C10.  A failure of find publishes no batch in that tick and does not    *)
(* end the loop of the task it happens in.                                 *)
(***************************************************************************)
C10_FetchFailureSkipsTick ==
    \A w \in Viewers :
        task[w].cause = "find" =>
            /\ task[w].broadcasts = 0
            /\ task[w].pc \in Looping

(***************************************************************************)
(* C11.  After every step of a state made by initialize_vehicle_state,     *)
(* whatever time has elapsed: speed is in [0, 140], engine_rpm in          *)
(* [800, 6500], fuel_level at least 0, engine_temperature in [70, 120],    *)
(* and direction in [0, 360).                                              *)
(***************************************************************************)
C11_StateWithinClampRanges ==
    sim.op = "step" =>
        LET state == vehicle_states[SimVehicle]
        IN  /\ 0 <= state.speed /\ state.speed <= 140 * U
            /\ 800 * U <= state.engine_rpm /\ state.engine_rpm <= 6500 * U
            /\ 0 <= state.fuel_level
            /\ 70 * U <= state.engine_temperature
            /\ state.engine_temperature <= 120 * U
            /\ 0 <= state.direction /\ state.direction < Deg(360)

(***************************************************************************)
(* C12.  check_telemetry_alerts returns at most four alerts, at most one   *)
(* for a metric, in the order speed, engine_rpm, fuel_level,               *)
(* engine_temperature; and it returns none exactly when every metric's     *)
(* value is within its thresholds, min <= value <= max.                    *)
(***************************************************************************)
MetricIndex(metric) == CHOOSE i \in 1..Len(Metrics) : Metrics[i] = metric
WithinThresholds(telemetry, metric) ==
    /\ TELEMETRY_THRESHOLDS[metric].min <= telemetry[metric]
    /\ telemetry[metric] <= TELEMETRY_THRESHOLDS[metric].max

C12_AlertsOnePerMetricInOrder ==
    sim.op = "checked" =>
        /\ Len(sim.alerts) <= 4
        /\ \A i, j \in 1..Len(sim.alerts) :
              i < j => MetricIndex(sim.alerts[i].metric)
                           < MetricIndex(sim.alerts[j].metric)
        /\ sim.alerts = <<>>
              <=> \A k \in 1..Len(Metrics) :
                     WithinThresholds(sim.telemetry, Metrics[k])

\* A sample with every metric out of its thresholds has been checked: four
\* alerts, high-side and low-side ones among them.
C12_Witness ==
    /\ sim.op = "checked"
    /\ Len(sim.alerts) = 4
    /\ sim.alerts[1].threshold = TELEMETRY_THRESHOLDS.speed.max
    /\ sim.alerts[3].threshold = TELEMETRY_THRESHOLDS.fuel_level.min

(***************************************************************************)
(* C13.  For a value above max the alert has threshold max and severity    *)
(* "high" if value > 1.2 * max, "medium" otherwise; for a value below min  *)
(* it has threshold min and severity "high" if value < 0.8 * min, "medium" *)
(* otherwise; a value within the thresholds has no alert.  Speed 145 has   *)
(* one high speed alert, fuel_level 5 one high fuel_level alert.  No       *)
(* alert has severity "low".                                               *)
(***************************************************************************)
AlertsAbout(alerts, metric) ==
    SelectSeq(alerts, LAMBDA a : a.metric = metric)

C13_ThresholdAndSeverity ==
    sim.op = "checked" =>
        /\ \A k \in 1..Len(Metrics) :
              LET metric == Metrics[k]
                  value  == sim.telemetry[metric]
                  max    == TELEMETRY_THRESHOLDS[metric].max
                  min    == TELEMETRY_THRESHOLDS[metric].min
                  about  == AlertsAbout(sim.alerts, metric)
              IN  /\ value > max =>
                        /\ Len(about) = 1
                        /\ about[1].value = value
                        /\ about[1].threshold = max
                        /\ about[1].severity =
                              IF 10 * value > 12 * max THEN "high" ELSE "medium"
                  /\ value < min =>
                        /\ Len(about) = 1
                        /\ about[1].value = value
                        /\ about[1].threshold = min
                        /\ about[1].severity =
                              IF 10 * value < 8 * min THEN "high" ELSE "medium"
                  /\ (min <= value /\ value <= max) => about = <<>>
        /\ sim.telemetry.speed = 145 * U =>
              /\ AlertsAbout(sim.alerts, "speed")[1].severity = "high"
              /\ AlertsAbout(sim.alerts, "speed")[1].threshold = 120 * U
        /\ sim.telemetry.fuel_level = 5 * U =>
              /\ AlertsAbout(sim.alerts, "fuel_level")[1].severity = "high"
              /\ AlertsAbout(sim.alerts, "fuel_level")[1].threshold = 10 * U
        /\ \A i \in 1..Len(sim.alerts) : sim.alerts[i].severity # "low"

\* The sample of the claim's examples has been checked, with a value at a
\* severity bound (engine_rpm 7200 = 1.2 * 6000) beside them.
C13_Witness ==
    /\ sim.op = "checked"
    /\ sim.telemetry.speed = 145 * U
    /\ sim.telemetry.fuel_level = 5 * U
    /\ sim.telemetry.engine_rpm = 7200 * U
    /\ Len(sim.alerts) = 3
    /\ sim.alerts[2].severity = "medium"

(***************************************************************************)
(* C14.  While a vehicle is active and has an entry in vehicle_states, no  *)
(* step of the program replaces the entry by a freshly initialized one:    *)
(* the entry's fuel_level never rises.                                     *)
(***************************************************************************)
C14_InitializedOnceFuelNeverRises ==
    [][\A v \in VehicleIds :
          (/\ IsActive(v)
           /\ vehicle_states[v] # NoState
           /\ vehicle_states'[v] # NoState)
          => vehicle_states'[v].fuel_level <= vehicle_states[v].fuel_level]_vars

(***************************************************************************)
(* C15.  When a broadcast has returned, every connection that was          *)
(* registered when it started and is registered still (a connection once   *)
(* removed is not attached again) has had exactly one send attempt of      *)
(* this broadcast, whichever other connections were attached or removed    *)
(* while the broadcast was suspended.                                      *)
(***************************************************************************)
C15_RegistrySafeUnderChange ==
    \A b \in WebSockets :
        LET t == task[b]
        IN  t.pc = "sleep" =>
               \A c \in Range(t.reg0) \cap Range(active_connections) :
                   Len(SelectSeq(t.sent, LAMBDA e : e.websocket = c)) = 1

(***************************************************************************)
(* C16.  For every vehicle, last_update never decreases from one step to   *)
(* the next and is never later than the clock, so that time_diff is never  *)
(* negative; and the timestamp of a sample is not later than the           *)
(* vehicle's last_update, so that a later sample's timestamp is not        *)
(* earlier.  This holds with several tasks stepping the same vehicle.      *)
(* (The clock itself, datetime.now, is taken not to go backwards.)         *)
(***************************************************************************)
SamplesHeld ==
    UNION {{task[w].telemetry} \cup Range(task[w].all_telemetry)
           \cup (IF task[w].message = NoMessage THEN {}
                 ELSE Range(task[w].message.data)) : w \in Viewers} \ {NoState}

WithinClamps(state) ==
    /\ 0 <= state.speed /\ state.speed <= 140 * U
    /\ 800 * U <= state.engine_rpm /\ state.engine_rpm <= 6500 * U
    /\ 0 <= state.fuel_level /\ state.fuel_level <= 100 * U
    /\ 70 * U <= state.engine_temperature
    /\ state.engine_temperature <= 120 * U

C17_ZeroElapsedStep ==
    (sim.op = "step" /\ sim.time_diff = 0 /\ WithinClamps(sim.before)) =>
        LET before == sim.before
            after  == vehicle_states[SimVehicle]
        IN  /\ after.speed = before.speed
            /\ after.fuel_level = before.fuel_level
            /\ after.engine_temperature = before.engine_temperature
            /\ after.latitude = before.latitude
            /\ after.longitude = before.longitude
            /\ after.engine_rpm
                  = Max(800 * U, Min(6500 * U, before.speed * 35 + sim.draw.rpm))

\* A step with no time elapsed has given engine_rpm a value it did not
\* have before.
C17_Witness ==
    /\ sim.op = "step" /\ sim.time_diff = 0 /\ WithinClamps(sim.before)
    /\ vehicle_states[SimVehicle].engine_rpm # sim.before.engine_rpm
    /\ vehicle_states[SimVehicle].fuel_level = sim.before.fuel_level

(***************************************************************************)
(* C19.  In the alerts of every sample the simulator produces (a state     *)
(* made by initialize_vehicle_state, then any steps with time_diff >= 0):  *)
(* no alert of severity "high" is about speed, engine_rpm or               *)
(* engine_temperature; no alert about speed or engine_rpm is a low-side    *)
(* alert; no alert about fuel_level is a high-side alert.  So an alert of  *)
(* severity "high" is always a low-side alert about fuel_level.            *)
(***************************************************************************)
LowSide(alert)  == alert.threshold = TELEMETRY_THRESHOLDS[alert.metric].min
HighSide(alert) == alert.threshold = TELEMETRY_THRESHOLDS[alert.metric].max

C19_HighOnlyForLowFuel ==
    sim.op = "step" =>
        \A i \in 1..Len(sim.alerts) :
            LET alert == sim.alerts[i]
            IN  /\ alert.severity = "high" =>
                      alert.metric
                          \notin {"speed", "engine_rpm", "engine_temperature"}
                /\ alert.metric \in {"speed", "engine_rpm"} =>
                      ~ (alert.value < TELEMETRY_THRESHOLDS[alert.metric].min)
                /\ alert.metric = "fuel_level" =>
                      ~ (alert.value > TELEMETRY_THRESHOLDS[alert.metric].max)
                /\ alert.severity = "high" =>
                      /\ alert.metric = "fuel_level"
                      /\ alert.value < TELEMETRY_THRESHOLDS.fuel_level.min
                      /\ LowSide(alert)

\* A step has produced a sample with a "high" alert for low fuel, together
\* with a "medium" alert for an engine temperature at the top of its clamp
\* range, which is the bound 1.2 * max of severity "high" itself.
C19_Witness ==
    /\ sim.op = "step"
    /\ \E i \in 1..Len(sim.alerts) :
          /\ sim.alerts[i].metric = "fuel_level"
          /\ sim.alerts[i].severity = "high"
          /\ LowSide(sim.alerts[i])
    /\ \E i \in 1..Len(sim.alerts) :
          /\ sim.alerts[i].metric = "engine_temperature"
          /\ sim.alerts[i].value = 120 * U
          /\ sim.alerts[i].severity = "medium"
          /\ HighSide(sim.alerts[i])

(***************************************************************************)
(* C18.  Once the update_one of delete_vehicle has marked a vehicle        *)
(* inactive, the vehicle is never active again, whatever calls of          *)
(* create_vehicle, update_vehicle and delete_vehicle follow; and every     *)
(* find({"is_active": True}) that a tick has the database execute from     *)
(* then on returns a list without that vehicle's id.                       *)
(***************************************************************************)
MarkedInactive == deleting \cup deleted

C18_DeletedNeverActiveAgain ==
    /\ [](\A v \in MarkedInactive : ~IsActive(v))
    /\ [][\A w \in Viewers :
             (task[w].pc = "find" /\ task'[w].pc = "found")
             => \A v \in MarkedInactive : v \notin Range(task'[w].vehicles)]_vars

\* update_vehicle has changed a vehicle that was deleted before, and has
\* returned it, still inactive; a tick has fetched the active vehicles and
\* got the other vehicle only.
C18_Witness ==
    \E v \in deleted :
        /\ update_result.status = 200
        /\ update_result.vehicle = [id |-> v, is_active |-> FALSE, name |-> "b"]
        /\ \E w \in Viewers :
              /\ task[w].pc = "found"
              /\ task[w].vehicles # <<>>
              /\ v \notin Range(task[w].vehicles)

=============================================================================
